---- MODULE Spec2Model ----
(***************************************************************************)
(* Model of bot.py: the /check command of the sneaker price bot.           *)
(*                                                                         *)
(* A Python str is a sequence of one-character strings, so that replace,   *)
(* split, strip, lower, the digit test and the SKU regular expression are  *)
(* computed character by character as the interpreter computes them.       *)
(* Python's None is the value None below, which is no character sequence.  *)
(***************************************************************************)
EXTENDS Integers, Sequences, FiniteSets, TLC

\* ---------------------------------------------------------------------------
\* Python values
\* ---------------------------------------------------------------------------
None == <<"None">>

EmptyStr == <<>>

\* bool(x) of a value that is None or a str
Truthy(x) == x # None /\ x # EmptyStr

UpperSeq == <<"A", "B", "C", "D", "E", "F", "G", "H", "I", "J", "K", "L", "M",
              "N", "O", "P", "Q", "R", "S", "T", "U", "V", "W", "X", "Y", "Z">>

LowerSeq == <<"a", "b", "c", "d", "e", "f", "g", "h", "i", "j", "k", "l", "m",
              "n", "o", "p", "q", "r", "s", "t", "u", "v", "w", "x", "y", "z">>

DigitSeq == <<"0", "1", "2", "3", "4", "5", "6", "7", "8", "9">>

UpperChars == {UpperSeq[i] : i \in DOMAIN UpperSeq}

LowerChars == {LowerSeq[i] : i \in DOMAIN LowerSeq}

DigitChars == {DigitSeq[i] : i \in DOMAIN DigitSeq}

Whitespace == {" ", "\t", "\n"}

\* \w of the re module on the characters of the model
WordChars == UpperChars \cup LowerChars \cup DigitChars \cup {"_"}

\* str.lower()
LowerChar(c) ==
    IF c \in UpperChars
    THEN LowerSeq[CHOOSE i \in DOMAIN UpperSeq : UpperSeq[i] = c]
    ELSE c

lower(s) == [i \in DOMAIN s |-> LowerChar(s[i])]

\* s[i:i+len(p)] == p, with 1-based i
StartsWithAt(s, p, i) ==
    /\ i + Len(p) - 1 <= Len(s)
    /\ \A k \in 1..Len(p) : s[i + k - 1] = p[k]

\* s.startswith(p)
startswith(s, p) == StartsWithAt(s, p, 1)

\* p in s
contains(s, p) == \E i \in 1..(Len(s) + 1) : StartsWithAt(s, p, i)

RECURSIVE replaceFrom(_, _, _, _)
replaceFrom(s, old, new, i) ==
    IF i > Len(s) THEN <<>>
    ELSE IF StartsWithAt(s, old, i)
         THEN new \o replaceFrom(s, old, new, i + Len(old))
         ELSE <<s[i]>> \o replaceFrom(s, old, new, i + 1)

\* s.replace(old, new) for a non-empty old: leftmost, non-overlapping
replace(s, old, new) == replaceFrom(s, old, new, 1)

\* s.strip()
strip(s) ==
    LET keep == {i \in DOMAIN s : s[i] \notin Whitespace}
    IN  IF keep = {} THEN <<>>
        ELSE LET lo == CHOOSE i \in keep : \A j \in keep : i <= j
                 hi == CHOOSE i \in keep : \A j \in keep : j <= i
             IN  SubSeq(s, lo, hi)

RECURSIVE splitFrom(_, _)
splitFrom(s, i) ==
    IF i > Len(s) THEN <<>>
    ELSE IF s[i] \in Whitespace THEN splitFrom(s, i + 1)
    ELSE LET stops == {j \in i..Len(s) : s[j] \in Whitespace}
             e == IF stops = {} THEN Len(s) + 1
                  ELSE CHOOSE j \in stops : \A k \in stops : j <= k
         IN  <<SubSeq(s, i, e - 1)>> \o splitFrom(s, e)

\* s.split(): the whitespace-separated words of s
split(s) == splitFrom(s, 1)

\* re.search(r"\d", s)
search_digit(s) == \E i \in DOMAIN s : s[i] \in DigitChars

RECURSIVE str_nat(_)
str_nat(n) ==
    IF n < 10 THEN <<DigitSeq[n + 1]>>
    ELSE str_nat(n \div 10) \o <<DigitSeq[(n % 10) + 1]>>

\* ---------------------------------------------------------------------------
\* SKU_REGEX = \b[A-Z0-9]{2,}\d{4}-\d{3}\b
\* ---------------------------------------------------------------------------
\* \b at the position before s[i] (i = Len(s) + 1 is the end of the text)
WordBoundary(s, i) ==
    LET before == i > 1 /\ s[i - 1] \in WordChars
        after  == i <= Len(s) /\ s[i] \in WordChars
    IN  before # after

\* s[i..j] is a match of the pattern
SkuMatch(s, i, j) ==
    /\ 1 <= i /\ j <= Len(s) /\ j - i + 1 >= 10
    /\ WordBoundary(s, i)
    /\ \A k \in i..(j - 8) : s[k] \in UpperChars \cup DigitChars
    /\ \A k \in (j - 7)..(j - 4) : s[k] \in DigitChars
    /\ s[j - 3] = "-"
    /\ \A k \in (j - 2)..j : s[k] \in DigitChars
    /\ WordBoundary(s, j + 1)

\* SKU_REGEX.search(text): the leftmost match, longest at that start; group(0)
SKU_REGEX_search(s) ==
    LET starts == {i \in DOMAIN s : \E j \in DOMAIN s : SkuMatch(s, i, j)}
    IN  IF starts = {} THEN None
        ELSE LET i == CHOOSE a \in starts : \A b \in starts : a <= b
                 ends == {j \in DOMAIN s : SkuMatch(s, i, j)}
                 j == CHOOSE a \in ends : \A b \in ends : b <= a
             IN  SubSeq(s, i, j)

\* ---------------------------------------------------------------------------
\* String literals of bot.py
\* ---------------------------------------------------------------------------
S_jordan_one == <<"j", "o", "r", "d", "a", "n", " ", "o", "n", "e">>

S_air_jordan_1 == <<"a", "i", "r", " ", "j", "o", "r", "d", "a", "n", " ", "1">>

S_jordan_1 == <<"j", "o", "r", "d", "a", "n", " ", "1">>

S_Retro_High == <<" ", "R", "e", "t", "r", "o", " ", "H", "i", "g", "h">>

S_retro_high == <<"r", "e", "t", "r", "o", " ", "h", "i", "g", "h">>

S_retro == <<"r", "e", "t", "r", "o">>

S_nike_ == <<"n", "i", "k", "e", " ">>

S_Unknown_Sneaker == <<"U", "n", "k", "n", "o", "w", "n", " ", "S", "n", "e", "a", "k", "e", "r">>

S_image_ == <<"i", "m", "a", "g", "e", "/">>

\* ---------------------------------------------------------------------------
\* Inputs: what the collaborators of one request may answer
\* ---------------------------------------------------------------------------
\* image.content_type of the uploaded attachment
ContentTypes ==
    { None,
      <<>>,
      <<"t", "e", "x", "t", "/", "p", "l", "a", "i", "n">>,
      <<"i", "m", "a", "g", "e", "/", "p", "n", "g">> }

\* the image download: an HTTP status, or a transport error (status 0)
NoDownload == [kind |-> "none", status |-> 0]

DownloadOutcomes ==
    { [kind |-> "status", status |-> 200],
      [kind |-> "status", status |-> 404],
      [kind |-> "error",  status |-> 0] }

\* texts pytesseract may recognise
T_sku_alone == <<"A", "B", "1", "2", "3", "4", "-", "5", "6", "7">>

T_sku_in_line == <<"S", "K", "U", " ", "A", "B", "1", "2", "3", "4", "-", "5", "6", "7", " ", "U", "S">>

T_two_skus == <<"N", "I", "K", "E", " ", "5", "5", "4", "7", "2", "4", "-", "0", "6", "1", "\n",
                "C", "D", "4", "4", "8", "7", "-", "1", "0", "0">>

T_sku_dashes == <<"-", "A", "B", "1", "2", "3", "4", "-", "5", "6", "7", "-">>

T_glued_prefix == <<"x", "A", "B", "1", "2", "3", "4", "-", "5", "6", "7">>

T_long_tail == <<"A", "B", "1", "2", "3", "4", "-", "5", "6", "7", "8">>

T_short_head == <<"A", "1", "2", "3", "4", "-", "5", "6", "7">>

T_lowercase == <<"a", "b", "1", "2", "3", "4", "-", "5", "6", "7">>

T_plain == <<"A", "i", "r", " ", "M", "a", "x", " ", "9", "0">>

OcrTexts ==
    { T_sku_alone, T_sku_in_line, T_two_skus, T_sku_dashes,
      T_glued_prefix, T_long_tail, T_short_head, T_lowercase, T_plain, <<>> }

\* extract_sku's try block: the recognised text, or an exception
OcrOutcomes ==
    {[raised |-> FALSE, text |-> t] : t \in OcrTexts}
        \cup {[raised |-> TRUE, text |-> <<>>]}

\* labels and descriptions the visual search may return
L_Air_Max == <<"A", "i", "r", " ", "M", "a", "x">>

L_Jordan_One == <<"J", "o", "r", "d", "a", "n", " ", "O", "n", "e">>

L_JORDAN_ONE == <<"J", "O", "R", "D", "A", "N", " ", "O", "N", "E">>

L_jordan_one_low == <<"j", "o", "r", "d", "a", "n", " ", "o", "n", "e", " ", "l", "o", "w">>

L_air_jordan_1_chicago == <<"a", "i", "r", " ", "j", "o", "r", "d", "a", "n", " ", "1", " ",
                            "c", "h", "i", "c", "a", "g", "o">>

L_Nike_Dunk_Low == <<"N", "i", "k", "e", " ", "D", "u", "n", "k", " ", "L", "o", "w">>

L_Yeezy_350 == <<"Y", "e", "e", "z", "y", " ", "3", "5", "0">>

L_Jordan == <<"J", "o", "r", "d", "a", "n">>

L_air_jordan_retro_high_og == <<"a", "i", "r", " ", "j", "o", "r", "d", "a", "n", " ", "r", "e", "t", "r", "o", " ",
                                "h", "i", "g", "h", " ", "o", "g">>

L_blank == <<" ">>

L_retro_retro_retro == <<"r", "e", "t", "r", "o", " ", "r", "e", "t", "r", "o", " ", "r", "e", "t", "r", "o">>

VisionLabels ==
    { L_Air_Max, L_Jordan_One, L_JORDAN_ONE, S_jordan_one, L_jordan_one_low,
      S_jordan_1, S_air_jordan_1, L_air_jordan_1_chicago, L_Nike_Dunk_Low,
      L_Yeezy_350, L_Jordan, L_air_jordan_retro_high_og, S_retro, L_blank,
      L_retro_retro_retro, EmptyStr }

\* resp.best_guess_labels
BestGuessLists ==
    {<<>>} \cup {<<l>> : l \in VisionLabels}
           \cup {<<L_Yeezy_350, L_Air_Max>>, <<L_Air_Max, L_Yeezy_350>>}

LowScore == 3

HighScore == 7

Entity(d, sc) == [description |-> d, score |-> sc]

\* resp.web_entities
EntityLists ==
    { <<>>,
      <<Entity(L_Jordan, LowScore)>>,
      <<Entity(L_Jordan, LowScore), Entity(L_Nike_Dunk_Low, HighScore)>>,
      <<Entity(L_Nike_Dunk_Low, HighScore), Entity(L_Jordan, LowScore)>>,
      <<Entity(L_Air_Max, HighScore), Entity(L_Yeezy_350, HighScore)>>,
      <<Entity(EmptyStr, HighScore), Entity(L_Jordan, LowScore)>> }

\* no web detection answer is held
NoResp == [valid |-> FALSE, best_guess_labels |-> <<>>, web_entities |-> <<>>]

\* guess_with_vision's try block: client construction (when the handle is
\* unset), then web_detection answering or raising
VisionOutcomes ==
    [construct_ok : BOOLEAN, api_ok : {TRUE},
     best_guess_labels : BestGuessLists, web_entities : EntityLists]
        \cup [construct_ok : BOOLEAN, api_ok : {FALSE},
              best_guess_labels : {<<>>}, web_entities : {<<>>}]

\* the answers drawn when invocations of check overlap: a few of each kind
ContentTypesSmall ==
    { <<"t", "e", "x", "t", "/", "p", "l", "a", "i", "n">>,
      <<"i", "m", "a", "g", "e", "/", "p", "n", "g">> }

DownloadOutcomesSmall ==
    { [kind |-> "status", status |-> 200],
      [kind |-> "status", status |-> 404] }

OcrOutcomesSmall ==
    {[raised |-> FALSE, text |-> t] : t \in {T_sku_alone, T_plain}}

VisionOutcomesSmall ==
    [construct_ok : BOOLEAN, api_ok : {TRUE},
     best_guess_labels : {<<>>, <<L_Nike_Dunk_Low>>}, web_entities : {<<>>}]

\* JSON values of a catalog record's fields: an absent key, null, a string or
\* a number
JMissing == [t |-> "missing", s |-> <<>>, n |-> 0]

JNull == [t |-> "null", s |-> <<>>, n |-> 0]

JStr(x) == [t |-> "str", s |-> x, n |-> 0]

JNum(k) == [t |-> "num", s |-> <<>>, n |-> k]

N_Air_Max_90 == <<"A", "i", "r", " ", "M", "a", "x", " ", "9", "0">>

N_Nike_Air_Max_90 == <<"N", "i", "k", "e", " ", "A", "i", "r", " ", "M", "a", "x", " ", "9", "0">>

B_Nike == <<"N", "i", "k", "e">>

B_NIKE == <<"N", "I", "K", "E">>

RetailAmount == 120

MarketAmount == 305

NameValues == {JMissing, JNull, JStr(EmptyStr), JStr(N_Air_Max_90), JStr(N_Nike_Air_Max_90)}

BrandValues == {JMissing, JNull, JStr(EmptyStr), JStr(B_Nike), JStr(B_NIKE)}

RetailValues == {JMissing, JNull, JNum(0), JNum(RetailAmount)}

MarketValues == {JMissing, JNum(0), JNum(MarketAmount)}

\* an element of the result list: a JSON object with the four fields read by
\* _format_sneaker_info, or a JSON string or null
DictEntries ==
    [t : {"dict"}, name : NameValues, brand : BrandValues,
     retailPrice : {JMissing}, estimatedMarketValue : {JMissing}]
    \cup [t : {"dict"}, name : NameValues, brand : BrandValues,
          retailPrice : {JNum(RetailAmount)}, estimatedMarketValue : {JNum(MarketAmount)}]
    \cup [t : {"dict"}, name : {JStr(N_Air_Max_90)}, brand : {JStr(B_Nike)},
          retailPrice : RetailValues, estimatedMarketValue : MarketValues]

NonDictEntries ==
    [t : {"str", "null"}, name : {JMissing}, brand : {JMissing},
     retailPrice : {JMissing}, estimatedMarketValue : {JMissing}]

Entries == DictEntries \cup NonDictEntries

OtherEntry ==
    [t |-> "dict", name |-> JStr(L_Jordan), brand |-> JStr(EmptyStr),
     retailPrice |-> JNum(RetailAmount), estimatedMarketValue |-> JMissing]

\* result lists of the catalog
ResultLists == {<<>>} \cup {<<e>> : e \in Entries} \cup {<<e, OtherEntry>> : e \in NonDictEntries}
                      \cup {<<OtherEntry, e>> : e \in NonDictEntries}

\* the value of the Python variable `results`: None or a list
PyNone == [isNone |-> TRUE, list |-> <<>>]

PyList(l) == [isNone |-> FALSE, list |-> l]

\* `not results`
Falsy(res) == res.isNone \/ res.list = <<>>

\* the answer to one catalog GET: a timeout, another exception (transport or
\* JSON decoding), or a status with a body of one of three shapes
SearchOutcomes ==
    [kind : {"timeout", "error"}, status : {0}, shape : {"other"}, results : {PyNone}]
        \cup [kind : {"status"}, status : {429, 500}, shape : {"other"}, results : {PyNone}]
        \cup [kind : {"status"}, status : {200}, shape : {"other"}, results : {PyNone}]
        \cup [kind : {"status"}, status : {200}, shape : {"dict_results"},
              results : {PyNone} \cup {PyList(l) : l \in ResultLists}]
        \cup [kind : {"status"}, status : {200}, shape : {"list"},
              results : {PyList(<<>>), PyList(<<OtherEntry>>)}]

SearchOutcomesSmall ==
    { [kind |-> "status", status |-> 429, shape |-> "other", results |-> PyNone],
      [kind |-> "status", status |-> 200, shape |-> "dict_results",
       results |-> PyList(<<OtherEntry>>)] }

\* ---------------------------------------------------------------------------
\* Pure functions of bot.py
\* ---------------------------------------------------------------------------
\* max(resp.web_entities, key=lambda e: e.score): the first entity of
\* maximal score
max_by_score(ents) ==
    LET i == CHOOSE a \in DOMAIN ents :
                 /\ \A b \in DOMAIN ents : ents[b].score <= ents[a].score
                 /\ \A b \in 1..(a - 1) : ents[b].score < ents[a].score
    IN  ents[i]

\* faulty variant of pick_label: the first entity instead of the best one
pick_label_first_entity(resp) ==
    IF resp.best_guess_labels # <<>> THEN resp.best_guess_labels[1]
    ELSE IF resp.web_entities # <<>> THEN resp.web_entities[1].description
    ELSE None

\* faulty variant of pick_label: a placeholder name instead of None
pick_label_placeholder(resp) ==
    IF resp.best_guess_labels # <<>> THEN resp.best_guess_labels[1]
    ELSE IF resp.web_entities # <<>> THEN max_by_score(resp.web_entities).description
    ELSE S_Unknown_Sneaker

\* lines 72-76 of guess_with_vision
pick_label(resp) ==
    IF resp.best_guess_labels # <<>> THEN resp.best_guess_labels[1]
    ELSE IF resp.web_entities # <<>> THEN max_by_score(resp.web_entities).description
    ELSE None

\* bool(v) of a JSON value
JTruthy(v) ==
    CASE v.t = "str" -> v.s # <<>>
      [] v.t = "num" -> v.n # 0
      [] OTHER -> FALSE

\* f"${v}" of a truthy JSON value
dollar(v) == <<"$">> \o (IF v.t = "num" THEN str_nat(v.n) ELSE v.s)

\* sneaker.get(key, default) as a str or None
get_str(v, default) ==
    CASE v.t = "missing" -> default
      [] v.t = "str" -> v.s
      [] OTHER -> None

\* faulty variant of _format_sneaker_info: the brand is looked for in the
\* name without lower()
_format_sneaker_info_case_sensitive(sneaker) ==
    IF sneaker.t # "dict"
    THEN [raised |-> TRUE, full_name |-> None, price_str |-> None, market_str |-> None]
    ELSE LET name  == get_str(sneaker.name, S_Unknown_Sneaker)
             brand == get_str(sneaker.brand, EmptyStr)
             price == IF JTruthy(sneaker.retailPrice)
                      THEN dollar(sneaker.retailPrice) ELSE None
             market == IF JTruthy(sneaker.estimatedMarketValue)
                       THEN dollar(sneaker.estimatedMarketValue) ELSE None
         IN  IF Truthy(brand) /\ name = None
             THEN [raised |-> TRUE, full_name |-> None, price_str |-> None, market_str |-> None]
             ELSE [raised |-> FALSE,
                   full_name |-> IF Truthy(brand) /\ ~contains(name, brand)
                                 THEN brand \o <<" ">> \o name
                                 ELSE name,
                   price_str |-> price,
                   market_str |-> market]

\* _format_sneaker_info(sneaker): raised, or the tuple
\* (full_name, price_str, market_str)
_format_sneaker_info(sneaker) ==
    IF sneaker.t # "dict"
    THEN [raised |-> TRUE, full_name |-> None, price_str |-> None, market_str |-> None]
    ELSE LET name  == get_str(sneaker.name, S_Unknown_Sneaker)
             brand == get_str(sneaker.brand, EmptyStr)
             price == IF JTruthy(sneaker.retailPrice)
                      THEN dollar(sneaker.retailPrice) ELSE None
             market == IF JTruthy(sneaker.estimatedMarketValue)
                       THEN dollar(sneaker.estimatedMarketValue) ELSE None
         IN  IF Truthy(brand) /\ name = None
             THEN [raised |-> TRUE, full_name |-> None, price_str |-> None, market_str |-> None]
             ELSE [raised |-> FALSE,
                   full_name |-> IF Truthy(brand) /\ ~contains(lower(name), lower(brand))
                                 THEN brand \o <<" ">> \o name
                                 ELSE name,
                   price_str |-> price,
                   market_str |-> market]

\* line 197 of search_sneakers
improve(query) ==
    replace(replace(query, S_jordan_one, S_air_jordan_1), S_jordan_1, S_air_jordan_1)

\* lines 207-212 of search_sneakers
variations(query) ==
    LET words == split(query)
    IN  << strip(S_air_jordan_1 \o <<" ">> \o
                 (IF Len(words) > 1 THEN words[Len(words)] ELSE <<>>)),
           S_nike_ \o query,
           strip(replace(query, S_retro_high, <<>>)),
           strip(replace(query, S_retro, <<>>)) >>

\* faulty variant of needs_suffix: the digit test is left out
needs_suffix_no_digit_test(product) == Len(split(product)) < 3

\* line 271 of check
needs_suffix(product) == Len(split(product)) < 3 /\ ~search_digit(product)

\* faulty variant of db_return: a status other than 200 is raised to the caller
db_return_raise_for_status(h) ==
    IF h.kind # "status" THEN [raised |-> FALSE, value |-> PyNone]
    ELSE IF h.status # 200 THEN [raised |-> TRUE, value |-> PyNone]
    ELSE IF h.shape \in {"dict_results", "list"} THEN [raised |-> FALSE, value |-> h.results]
    ELSE [raised |-> FALSE, value |-> PyNone]

\* how _search_sneaker_database ends for one answer of the catalog: every
\* exception is caught (lines 131-136), so it always returns, None or the list
db_return(h) ==
    IF h.kind # "status" THEN [raised |-> FALSE, value |-> PyNone]
    ELSE IF h.status # 200 THEN [raised |-> FALSE, value |-> PyNone]
    ELSE IF h.shape \in {"dict_results", "list"} THEN [raised |-> FALSE, value |-> h.results]
    ELSE [raised |-> FALSE, value |-> PyNone]

\* what the catalog answered, for the record
answer_kind(h) ==
    IF h.kind # "status" THEN h.kind
    ELSE IF h.status = 429 THEN "http_429"
    ELSE IF h.status # 200 THEN "http_error"
    ELSE IF h.shape = "other" THEN "bad_format"
    ELSE IF h.results.isNone THEN "null_results"
    ELSE IF h.results.list = <<>> THEN "empty" ELSE "list"

\* faulty variant of next_variation: an empty variation is searched too
next_variation_keep_empty(query, improved, from) ==
    LET v == variations(query)
        ok == {k \in from..Len(v) : v[k] # query /\ v[k] # improved}
    IN  IF ok = {} THEN 0 ELSE CHOOSE k \in ok : \A j \in ok : k <= j

\* faulty variant of next_variation: the loop starts over after every search
next_variation_restart(query, improved, from) ==
    LET v == variations(query)
        ok == {k \in 1..Len(v) :
                  Truthy(v[k]) /\ v[k] # query /\ v[k] # improved}
    IN  IF ok = {} THEN 0 ELSE CHOOSE k \in ok : \A j \in ok : k <= j

\* the for loop of lines 214-219: the first variation at index >= from that
\* passes the test of line 215, or 0 when the loop runs out
next_variation(query, improved, from) ==
    LET v == variations(query)
        ok == {k \in from..Len(v) :
                  Truthy(v[k]) /\ v[k] # query /\ v[k] # improved}
    IN  IF ok = {} THEN 0 ELSE CHOOSE k \in ok : \A j \in ok : k <= j

\* ---------------------------------------------------------------------------
\* State
\* ---------------------------------------------------------------------------
NumReqs == 2

Reqs == 1..NumReqs

NoInfo == [full_name |-> None, price_str |-> None, market_str |-> None]

NoVisionIn == [called |-> FALSE, construct_ok |-> FALSE, api_ok |-> FALSE]

VARIABLES
    overlap,         \* whether invocations of check may overlap in this run
    authenticated_vision_client, \* the module global: "None" or "client"
    constructions,   \* how often vision.ImageAnnotatorClient() succeeded
    pc,              \* where each invocation of check is suspended
    download,        \* the answer to the GET of the image, once it is there
    text,            \* extract_sku: the recognised text
    ocr,             \* "not_called", "raised" or "ok"
    resp,            \* guess_with_vision: the web detection answer, kept
                     \* until check has taken the guess (line 264)
    vision,          \* "not_called", "client_error", "api_error" or "ok"
    vision_in,       \* what the Vision service held for the request: whether
                     \* a client could be built, whether web_detection answers
    label,           \* what extraction returned to check (line 255 or 261)
    product,         \* check's variable product, the query of search_sneakers
    improved_query,  \* search_sneakers
    stage,           \* search_sneakers: "improved", "original" or "var"
    vi,              \* search_sneakers: index of the variation in the loop
    arg,             \* _search_sneaker_database's parameter query
    results,         \* search_sneakers' variable results
    answer,          \* the kind of the catalog's last answer
    queries,         \* the queries sent to the catalog, in order
    net,             \* the external calls and sleeps of the request, in order
    info,            \* what search_sneakers returned to check
    sent             \* the messages sent with interaction.followup.send

globals == <<authenticated_vision_client, constructions>>

extraction == <<download, text, ocr, resp, vision, vision_in, label>>

searching == <<improved_query, stage, vi, arg, results, answer, queries, info>>

vars == <<overlap, authenticated_vision_client, constructions, pc, download,
          text, ocr, resp, vision, vision_in, label,
          product, improved_query, stage, vi, arg, results, answer, queries,
          net, info, sent>>

\* the answers the collaborators may give in this run
Inputs(full, small) == IF overlap THEN small ELSE full

\* the module is loaded and no /check has arrived
Loaded ==
    /\ authenticated_vision_client = "None"
    /\ constructions = 0
    /\ pc = [r \in Reqs |-> "idle"]
    /\ download = [r \in Reqs |-> NoDownload]
    /\ text = [r \in Reqs |-> None]
    /\ ocr = [r \in Reqs |-> "not_called"]
    /\ resp = [r \in Reqs |-> NoResp]
    /\ vision = [r \in Reqs |-> "not_called"]
    /\ vision_in = [r \in Reqs |-> NoVisionIn]
    /\ label = [r \in Reqs |-> None]
    /\ product = [r \in Reqs |-> None]
    /\ improved_query = [r \in Reqs |-> None]
    /\ stage = [r \in Reqs |-> "none"]
    /\ vi = [r \in Reqs |-> 0]
    /\ arg = [r \in Reqs |-> None]
    /\ results = [r \in Reqs |-> PyNone]
    /\ answer = [r \in Reqs |-> "none"]
    /\ queries = [r \in Reqs |-> <<>>]
    /\ net = [r \in Reqs |-> <<>>]
    /\ info = [r \in Reqs |-> NoInfo]
    /\ sent = [r \in Reqs |-> <<>>]

\* the requests are served one after the other
Init == overlap = FALSE /\ Loaded

\* the requests may overlap
InitOverlap == overlap = TRUE /\ Loaded

\* faulty variant of Send: the message goes out twice
Send_twice(r, msg) ==
    /\ sent' = [sent EXCEPT ![r] = @ \o <<msg, msg>>]
    /\ pc' = [pc EXCEPT ![r] = "done"]

\* await interaction.followup.send(msg), after which check returns
Send(r, msg) ==
    /\ sent' = [sent EXCEPT ![r] = Append(@, msg)]
    /\ pc' = [pc EXCEPT ![r] = "done"]

\* ---------------------------------------------------------------------------
\* check: lines 236-252
\* ---------------------------------------------------------------------------
\* a /check interaction arrives and is deferred (line 237)
check(r) ==
    /\ pc[r] = "idle"
    /\ UNCHANGED overlap
    /\ overlap \/ \A q \in Reqs \ {r} : pc[q] = "idle"
    /\ pc' = [pc EXCEPT ![r] = "deferred"]
    /\ UNCHANGED <<globals, extraction, product, searching, net, sent>>

\* lines 240-247: the content type test, then the GET of the image
check_upload(r) ==
    /\ pc[r] = "deferred"
    /\ UNCHANGED overlap
    /\ \E ct \in Inputs(ContentTypes, ContentTypesSmall) :
          IF ~Truthy(ct) \/ ~startswith(ct, S_image_)
          THEN /\ Send(r, "upload_invalid")
               /\ UNCHANGED net
          ELSE /\ pc' = [pc EXCEPT ![r] = "download"]
               /\ net' = [net EXCEPT ![r] = Append(@, "image_get")]
               /\ UNCHANGED sent
    /\ UNCHANGED <<globals, extraction, product, searching>>

\* faulty variant of download_ok: any answered status is taken as success
download_ok_any_status(d) == d.kind = "status"

\* line 248: only status 200 gives the bytes of the image
download_ok(d) == d.status = 200

\* lines 247-252 and 296-298: the answer to the GET of the image
check_download(r) ==
    /\ pc[r] = "download"
    /\ UNCHANGED overlap
    /\ \E d \in Inputs(DownloadOutcomes, DownloadOutcomesSmall) :
          /\ download' = [download EXCEPT ![r] = d]
          /\ IF d.kind = "error" THEN Send(r, "error")
             ELSE IF ~download_ok(d) THEN Send(r, "download_failed")
             ELSE /\ pc' = [pc EXCEPT ![r] = "ocr"]
                  /\ UNCHANGED sent
    /\ UNCHANGED <<globals, text, ocr, resp, vision, vision_in, label, product,
                   searching, net>>

\* ---------------------------------------------------------------------------
\* Extraction: lines 40-79 and 254-262
\* ---------------------------------------------------------------------------
\* faulty variant of after_extract_sku: Vision is asked whatever OCR found
after_extract_sku_always_vision(p) == "vision"

\* line 256: with a product check goes on, without one it falls back to Vision
after_extract_sku(p) == IF Truthy(p) THEN "improve" ELSE "vision"

\* faulty variant of ocr_return: an exception of OCR leaves extract_sku
ocr_return_propagate(o) ==
    IF o.raised THEN [raised |-> TRUE, value |-> None]
    ELSE [raised |-> FALSE, value |-> SKU_REGEX_search(o.text)]

\* how extract_sku ends: every exception is caught (lines 45-47), so it
\* always returns, the match or None
ocr_return(o) ==
    [raised |-> FALSE,
     value |-> IF o.raised THEN None ELSE SKU_REGEX_search(o.text)]

\* extract_sku(img_bytes), called at line 255 (an exception would reach line
\* 296)
extract_sku(r) ==
    /\ pc[r] = "ocr"
    /\ UNCHANGED overlap
    /\ \E o \in Inputs(OcrOutcomes, OcrOutcomesSmall) :
          LET ret == ocr_return(o)
          IN  /\ net' = [net EXCEPT ![r] = Append(@, "ocr")]
              /\ text' = [text EXCEPT ![r] = IF o.raised THEN None ELSE o.text]
              /\ ocr' = [ocr EXCEPT ![r] = IF o.raised THEN "raised" ELSE "ok"]
              /\ IF ret.raised
                 THEN /\ Send(r, "error")
                      /\ UNCHANGED <<label, product>>
                 ELSE /\ label' = [label EXCEPT ![r] = ret.value]
                      /\ product' = [product EXCEPT ![r] = ret.value]
                      /\ pc' = [pc EXCEPT ![r] = after_extract_sku(ret.value)]
                      /\ UNCHANGED sent
    /\ UNCHANGED <<globals, download, resp, vision, vision_in, searching>>

\* faulty variant of _vision_client: a client is built at every call
_vision_client_rebuild(client, construct_ok) ==
    IF construct_ok THEN [raised |-> FALSE, client |-> "client", constructed |-> TRUE]
    ELSE [raised |-> TRUE, client |-> client, constructed |-> FALSE]

\* _vision_client(): the handle after the call, whether the call raised, and
\* whether it built a client
_vision_client(client, construct_ok) ==
    IF client = "None"
    THEN IF construct_ok
         THEN [raised |-> FALSE, client |-> "client", constructed |-> TRUE]
         ELSE [raised |-> TRUE, client |-> "None", constructed |-> FALSE]
    ELSE [raised |-> FALSE, client |-> client, constructed |-> FALSE]

\* guess_with_vision(img_bytes), called at line 261; it has no suspension
\* point, so it runs in one step
guess_with_vision(r) ==
    /\ pc[r] = "vision"
    /\ UNCHANGED overlap
    /\ \E v \in Inputs(VisionOutcomes, VisionOutcomesSmall) :
          LET c == _vision_client(authenticated_vision_client, v.construct_ok)
              answered == ~c.raised /\ v.api_ok
              rsp == [valid |-> TRUE,
                      best_guess_labels |-> v.best_guess_labels,
                      web_entities |-> v.web_entities]
              p == IF answered THEN pick_label(rsp) ELSE None
          IN  /\ authenticated_vision_client' = c.client
              /\ constructions' = constructions + (IF c.constructed THEN 1 ELSE 0)
              /\ vision_in' = [vision_in EXCEPT ![r] =
                                  [called |-> TRUE, construct_ok |-> v.construct_ok,
                                   api_ok |-> v.api_ok]]
              /\ net' = [net EXCEPT ![r] = Append(@, "vision")]
              /\ vision' = [vision EXCEPT ![r] =
                               IF authenticated_vision_client = "None" /\ ~v.construct_ok
                               THEN "client_error"
                               ELSE IF ~v.api_ok THEN "api_error" ELSE "ok"]
              /\ resp' = [resp EXCEPT ![r] = IF answered THEN rsp ELSE NoResp]
              /\ label' = [label EXCEPT ![r] = p]
              /\ product' = [product EXCEPT ![r] = p]
              /\ pc' = [pc EXCEPT ![r] = "improve"]
    /\ UNCHANGED <<download, text, ocr, searching, sent>>

\* lines 264-273: no product ends the request; a short generic name gets the
\* suffix
check_improve(r) ==
    /\ pc[r] = "improve"
    /\ UNCHANGED overlap
    /\ IF ~Truthy(product[r])
       THEN /\ Send(r, "unidentified")
            /\ UNCHANGED product
            /\ UNCHANGED <<resp, vision_in>>
       ELSE /\ product' = [product EXCEPT ![r] =
                              IF needs_suffix(@) THEN @ \o S_Retro_High ELSE @]
            /\ resp' = [resp EXCEPT ![r] = NoResp]
            /\ vision_in' = [vision_in EXCEPT ![r] = NoVisionIn]
            /\ pc' = [pc EXCEPT ![r] = "search"]
            /\ UNCHANGED sent
    /\ UNCHANGED <<globals, download, text, ocr, vision, label, searching, net>>

\* ---------------------------------------------------------------------------
\* search_sneakers and _search_sneaker_database: lines 99-138 and 194-228
\* ---------------------------------------------------------------------------
\* lines 197-200: the improved query is the first one searched
search_sneakers(r) ==
    /\ pc[r] = "search"
    /\ UNCHANGED overlap
    /\ improved_query' = [improved_query EXCEPT ![r] = improve(product[r])]
    /\ stage' = [stage EXCEPT ![r] = "improved"]
    /\ arg' = [arg EXCEPT ![r] = improve(product[r])]
    /\ pc' = [pc EXCEPT ![r] = "db_sleep"]
    /\ UNCHANGED <<globals, extraction, product, vi, results, answer, queries,
                   info, net, sent>>

\* faulty variant of attempt_events: the GET is sent without the sleep
attempt_events_unpaced == <<"search_get">>

\* lines 110-113: asyncio.sleep(0.5), then the GET of the search
attempt_events == <<"sleep", "search_get">>

\* lines 108-113: the pacing sleep is over and the GET is sent
_search_sneaker_database_get(r) ==
    /\ pc[r] = "db_sleep"
    /\ UNCHANGED overlap
    /\ net' = [net EXCEPT ![r] = @ \o attempt_events]
    /\ queries' = [queries EXCEPT ![r] = Append(@, arg[r])]
    /\ pc' = [pc EXCEPT ![r] = "db_get"]
    /\ UNCHANGED <<globals, extraction, product, improved_query, stage, vi,
                   arg, results, answer, info, sent>>

\* lines 113-138: the catalog answers and _search_sneaker_database returns
\* into search_sneakers' variable results (an exception would reach line 296)
_search_sneaker_database(r) ==
    /\ pc[r] = "db_get"
    /\ UNCHANGED overlap
    /\ \E h \in Inputs(SearchOutcomes, SearchOutcomesSmall) :
          LET ret == db_return(h)
          IN  /\ answer' = [answer EXCEPT ![r] = answer_kind(h)]
              /\ IF ret.raised
                 THEN /\ Send(r, "error")
                      /\ UNCHANGED results
                 ELSE /\ results' = [results EXCEPT ![r] = ret.value]
                      /\ pc' = [pc EXCEPT ![r] = "db_returned"]
                      /\ UNCHANGED sent
    /\ UNCHANGED <<globals, extraction, product, improved_query, stage, vi,
                   arg, queries, info, net>>

\* `if not results` of lines 201, 205, 218 and 221
keep_searching(res) == Falsy(res)

\* lines 201-228: after an attempt, search_sneakers searches again, or
\* returns; an exception of _format_sneaker_info reaches line 296 of check
search_sneakers_resume(r) ==
    /\ pc[r] = "db_returned"
    /\ UNCHANGED overlap
    /\ LET query == product[r]
           k == IF stage[r] = "original"
                THEN next_variation(query, improved_query[r], 1)
                ELSE IF stage[r] = "var"
                     THEN next_variation(query, improved_query[r], vi[r] + 1)
                     ELSE 0
       IN  IF keep_searching(results[r]) /\ stage[r] = "improved"
           THEN /\ stage' = [stage EXCEPT ![r] = "original"]
                /\ arg' = [arg EXCEPT ![r] = query]
                /\ pc' = [pc EXCEPT ![r] = "db_sleep"]
                /\ UNCHANGED <<vi, info, sent>>
           ELSE IF keep_searching(results[r]) /\ k # 0
           THEN /\ stage' = [stage EXCEPT ![r] = "var"]
                /\ vi' = [vi EXCEPT ![r] = k]
                /\ arg' = [arg EXCEPT ![r] = variations(query)[k]]
                /\ pc' = [pc EXCEPT ![r] = "db_sleep"]
                /\ UNCHANGED <<info, sent>>
           ELSE IF Falsy(results[r])
           THEN /\ info' = [info EXCEPT ![r] = NoInfo]
                /\ pc' = [pc EXCEPT ![r] = "respond"]
                /\ UNCHANGED <<stage, vi, arg, sent>>
           ELSE LET f == _format_sneaker_info(results[r].list[1])
                IN  IF f.raised
                    THEN /\ Send(r, "error")
                         /\ UNCHANGED <<stage, vi, arg, info>>
                    ELSE /\ info' = [info EXCEPT ![r] =
                                        [full_name |-> f.full_name,
                                         price_str |-> f.price_str,
                                         market_str |-> f.market_str]]
                         /\ pc' = [pc EXCEPT ![r] = "respond"]
                         /\ UNCHANGED <<stage, vi, arg, sent>>
    /\ UNCHANGED <<globals, extraction, product, improved_query, results,
                   answer, queries, net>>

\* ---------------------------------------------------------------------------
\* check: lines 276-294
\* ---------------------------------------------------------------------------
\* line 278: a product name gives the priced answer, none the unpriced one
check_respond(r) ==
    /\ pc[r] = "respond"
    /\ UNCHANGED overlap
    /\ IF Truthy(info[r].full_name) THEN Send(r, "priced") ELSE Send(r, "unpriced")
    /\ UNCHANGED <<globals, extraction, product, searching, net>>

\* check has returned: nothing of the request is kept
check_return(r) ==
    /\ pc[r] = "done"
    /\ UNCHANGED overlap
    /\ pc' = [pc EXCEPT ![r] = "idle"]
    /\ download' = [download EXCEPT ![r] = NoDownload]
    /\ text' = [text EXCEPT ![r] = None]
    /\ ocr' = [ocr EXCEPT ![r] = "not_called"]
    /\ resp' = [resp EXCEPT ![r] = NoResp]
    /\ vision' = [vision EXCEPT ![r] = "not_called"]
    /\ vision_in' = [vision_in EXCEPT ![r] = NoVisionIn]
    /\ label' = [label EXCEPT ![r] = None]
    /\ product' = [product EXCEPT ![r] = None]
    /\ improved_query' = [improved_query EXCEPT ![r] = None]
    /\ stage' = [stage EXCEPT ![r] = "none"]
    /\ vi' = [vi EXCEPT ![r] = 0]
    /\ arg' = [arg EXCEPT ![r] = None]
    /\ results' = [results EXCEPT ![r] = PyNone]
    /\ answer' = [answer EXCEPT ![r] = "none"]
    /\ queries' = [queries EXCEPT ![r] = <<>>]
    /\ net' = [net EXCEPT ![r] = <<>>]
    /\ info' = [info EXCEPT ![r] = NoInfo]
    /\ sent' = [sent EXCEPT ![r] = <<>>]
    /\ UNCHANGED globals

Next ==
    \E r \in Reqs :
        \/ check(r)
        \/ check_upload(r)
        \/ check_download(r)
        \/ extract_sku(r)
        \/ guess_with_vision(r)
        \/ check_improve(r)
        \/ search_sneakers(r)
        \/ _search_sneaker_database_get(r)
        \/ _search_sneaker_database(r)
        \/ search_sneakers_resume(r)
        \/ check_respond(r)
        \/ check_return(r)

Spec == Init /\ [][Next]_vars

\* the same program with overlapping requests
SpecOverlap == InitOverlap /\ [][Next]_vars

\* ---------------------------------------------------------------------------
\* Properties
\* ---------------------------------------------------------------------------
\* the substrings of a text that match SKU_REGEX
SkuMatches(t) ==
    {SubSeq(t, i, j) : <<i, j>> \in {ij \in (DOMAIN t) \X (DOMAIN t) : SkuMatch(t, ij[1], ij[2])}}

\* OCR answered and its text holds a match of the pattern
OcrMatched(r) == ocr[r] = "ok" /\ SkuMatches(text[r]) # {}

\* OCR answered and its text holds no match
OcrUnmatched(r) == ocr[r] = "ok" /\ SkuMatches(text[r]) = {}

\* the searches search_sneakers may make for a query, in order: the improved
\* query, the query itself, then the variations that are neither empty nor
\* one of the two
AllowedVariation(q, v) == v # <<>> /\ v # q /\ v # improve(q)

ExpectedPlan(q) ==
    LET v == variations(q)
        keep == {k \in DOMAIN v : AllowedVariation(q, v[k])}
        nth(n) == CHOOSE k \in keep : Cardinality({j \in keep : j < k}) = n - 1
    IN  <<improve(q), q>> \o [n \in 1..Cardinality(keep) |-> v[nth(n)]]

IsPrefix(a, b) == Len(a) <= Len(b) /\ \A i \in DOMAIN a : a[i] = b[i]

\* search_sneakers has been entered
Searching(r) == stage[r] # "none"

\* search_sneakers has returned to check
Returned(r) == pc[r] = "respond" \/ (pc[r] = "done" /\ sent[r] \in {<<"priced">>, <<"unpriced">>})

\* C1: when the recognised text holds a match of the SKU pattern, the label
\* of the request is a matched substring of that text, check carries it on
\* unchanged, and the visual search is not invoked in the request.
C1_PatternPrecedesVision ==
    \A r \in Reqs :
        OcrMatched(r) =>
            /\ label[r] \in SkuMatches(text[r])
            /\ product[r] = label[r]
            /\ vision[r] = "not_called"
            /\ pc[r] # "vision"
            /\ \A i \in DOMAIN queries[r] : i = 2 => queries[r][i] = label[r]

C1_Witness ==
    \E r \in Reqs :
        /\ text[r] = T_two_skus
        /\ pc[r] = "done"
        /\ sent[r] = <<"priced">>
        /\ Len(label[r]) = 10

\* C2: search_sneakers searches in the fixed order improved query, original
\* query, variations in list order; it stops at the first attempt with a
\* non-empty result list and returns data of that list; it returns
\* (None, None, None) only after every allowed attempt gave nothing.
C2_OrderedSearch ==
    \A r \in Reqs :
        Searching(r) =>
            /\ IsPrefix(queries[r], ExpectedPlan(product[r]))
            /\ pc[r] \in {"db_sleep", "db_get"} => Falsy(results[r])
            /\ (pc[r] = "done" /\ ~Falsy(results[r])) => sent[r] # <<"error">>
            /\ (Returned(r) /\ ~Falsy(results[r])) =>
                   LET f == _format_sneaker_info(results[r].list[1])
                   IN  info[r] = [full_name |-> f.full_name,
                                  price_str |-> f.price_str,
                                  market_str |-> f.market_str]
            /\ (Returned(r) /\ info[r] = NoInfo) =>
                   /\ Falsy(results[r])
                   /\ queries[r] = ExpectedPlan(product[r])

\* C3: a status other than 200, a timeout or another exception of a catalog
\* search is not raised: the attempt returns None, and search_sneakers goes
\* on to the next search of its order, or returns absent when none is left.
TransportFaults == {"http_429", "http_error", "timeout", "error"}

C3_FaultIsEmptyAttempt ==
    \A r \in Reqs :
        answer[r] \in TransportFaults =>
            /\ results[r] = PyNone
            /\ ~(pc[r] = "done" /\ sent[r] = <<"error">>)
            /\ pc[r] \in {"db_returned", "db_get"} =>
                   /\ queries[r] # <<>>
                   /\ IsPrefix(queries[r], ExpectedPlan(product[r]))
            /\ pc[r] = "db_sleep" =>
                   /\ Len(queries[r]) < Len(ExpectedPlan(product[r]))
                   /\ arg[r] = ExpectedPlan(product[r])[Len(queries[r]) + 1]
            /\ pc[r] \in {"respond", "done"} =>
                   /\ info[r] = NoInfo
                   /\ queries[r] = ExpectedPlan(product[r])
            /\ pc[r] = "done" => sent[r] = <<"unpriced">>

C3_Witness ==
    \E r \in Reqs :
        /\ answer[r] = "http_429"
        /\ pc[r] = "db_get"
        /\ Len(queries[r]) = 2

\* the GET of the image answered with status 200
Downloaded(r) == download[r].kind = "status" /\ download[r].status = 200

\* the GET of the image answered another status, or failed in transport
DownloadFailed(r) ==
    \/ download[r].kind = "error"
    \/ download[r].kind = "status" /\ download[r].status # 200

\* C4: once the image is downloaded, the request ends as priced, unpriced or
\* unidentified, never with the error message, whatever the collaborators
\* answer.
C4_NoAbortAfterDownload ==
    \A r \in Reqs :
        (Downloaded(r) /\ pc[r] = "done") =>
            sent[r] \in {<<"priced">>, <<"unpriced">>, <<"unidentified">>}

\* C5: with a label from the extractor, the request ends priced exactly when
\* search_sneakers returned a record and unpriced exactly when it returned
\* (None, None, None), never unidentified; a request ends unidentified only
\* without a label.
C5_OutcomeFollowsAdapter ==
    \A r \in Reqs :
        pc[r] = "done" =>
            /\ (Truthy(label[r]) /\ Returned(r)) =>
                   /\ (sent[r] = <<"priced">>) <=> (info[r] # NoInfo)
                   /\ (sent[r] = <<"unpriced">>) <=> (info[r] = NoInfo)
            /\ Truthy(label[r]) => sent[r] # <<"unidentified">>
            /\ sent[r] = <<"unidentified">> => ~Truthy(label[r])

\* C6: when the recognised text has no SKU match and the visual search
\* answers with no best-guess label and no entity, extraction returns None,
\* the request ends unidentified without an exception, and no catalog search
\* is sent.
VisionEmpty(r) ==
    /\ resp[r].valid
    /\ resp[r].best_guess_labels = <<>>
    /\ resp[r].web_entities = <<>>

C6_NothingFoundIsUnidentified ==
    \A r \in Reqs :
        (OcrUnmatched(r) /\ VisionEmpty(r)) =>
            /\ label[r] = None
            /\ pc[r] \in {"improve", "done"}
            /\ pc[r] = "done" => sent[r] = <<"unidentified">>
            /\ queries[r] = <<>>
            /\ ~Searching(r)
            /\ "search_get" \notin {net[r][i] : i \in DOMAIN net[r]}

C6_Witness ==
    \E r \in Reqs :
        /\ OcrUnmatched(r)
        /\ VisionEmpty(r)
        /\ pc[r] = "done"
        /\ sent[r] = <<"unidentified">>

\* C7: when the download of the image answers a status other than 200 or
\* fails with a transport error, the request ends there with a failure
\* message, never unidentified, and neither OCR nor the visual search nor a
\* catalog search is invoked.
C7_DownloadFailureAborts ==
    \A r \in Reqs :
        DownloadFailed(r) =>
            /\ pc[r] = "done"
            /\ sent[r] \in {<<"download_failed">>, <<"error">>}
            /\ ocr[r] = "not_called"
            /\ vision[r] = "not_called"
            /\ queries[r] = <<>>
            /\ net[r] = <<"image_get">>

C7_Witness ==
    \E r \in Reqs :
        /\ download[r].status = 404
        /\ sent[r] = <<"download_failed">>

\* the normalisation of a label: the suffix rule of check, then the alias
\* substitution of search_sneakers
normalize(x) == improve(IF needs_suffix(x) THEN x \o S_Retro_High ELSE x)

\* C8: normalisation is idempotent on a label that holds the canonical form
\* 'air jordan 1' and a digit: normalising the first query again gives it
\* back.
C8_NormalizeIdempotent ==
    \A r \in Reqs :
        (queries[r] # <<>> /\ contains(label[r], S_air_jordan_1) /\ search_digit(label[r])) =>
            normalize(queries[r][1]) = queries[r][1]

\* the number of whitespace-separated words of s: the places where a word
\* starts
WordCount(s) ==
    Cardinality({i \in DOMAIN s :
                    s[i] \notin Whitespace /\ (i = 1 \/ s[i - 1] \in Whitespace)})

HasDigit(s) == {i \in DOMAIN s : s[i] \in DigitChars} # {}

\* check is past the suffix rule of lines 270-273
Improved(r) == Truthy(label[r]) /\ pc[r] \notin {"idle", "deferred", "download", "ocr", "vision", "improve"}

\* C9: ' Retro High' is appended exactly when the label has fewer than three
\* words and no digit; every other label, so every SKU, goes on unchanged.
C9_SuffixRule ==
    \A r \in Reqs :
        Improved(r) =>
            /\ (WordCount(label[r]) < 3 /\ ~HasDigit(label[r])) =>
                   product[r] = label[r] \o S_Retro_High
            /\ (WordCount(label[r]) >= 3 \/ HasDigit(label[r])) =>
                   product[r] = label[r]
            /\ OcrMatched(r) => product[r] = label[r]
            /\ label[r] = L_Air_Max =>
                   product[r] = <<"A", "i", "r", " ", "M", "a", "x", " ", "R", "e", "t", "r", "o", " ", "H", "i", "g", "h">>

C9_Witness ==
    \E r \in Reqs :
        /\ Improved(r)
        /\ label[r] = L_Air_Max
        /\ product[r] = L_Air_Max \o S_Retro_High
        /\ queries[r] # <<>>

\* C10: when the label holds 'jordan one' in any letter case, the first
\* query sent to the catalog holds 'air jordan 1' and no longer the
\* spelled-out form.
C10_AliasAnyCase ==
    \A r \in Reqs :
        (queries[r] # <<>> /\ contains(lower(label[r]), S_jordan_one)) =>
            /\ contains(queries[r][1], S_air_jordan_1)
            /\ ~contains(lower(queries[r][1]), S_jordan_one)

\* C11: with a non-empty label, neither the suffix rule nor the alias
\* substitution gives an empty query, and every query sent to the catalog
\* (improved, original, variation) is non-empty.
C11_NoEmptyQuery ==
    \A r \in Reqs :
        (label[r] # None /\ label[r] # <<>>) =>
            /\ product[r] # <<>>
            /\ improved_query[r] # <<>>
            /\ arg[r] # <<>>
            /\ \A i \in DOMAIN queries[r] : Len(queries[r][i]) > 0

C11_Witness ==
    \E r \in Reqs :
        /\ label[r] = L_retro_retro_retro
        /\ pc[r] = "respond"
        /\ Len(queries[r]) = 4
        /\ strip(replace(product[r], S_retro, <<>>)) = <<>>

\* the visual search raised: no client could be built, or web_detection failed
VisionRaised(r) == vision[r] \in {"client_error", "api_error"}

\* extraction is over and check has its result
Extracted(r) ==
    \/ pc[r] = "improve"
    \/ pc[r] = "done" /\ sent[r] = <<"unidentified">>

\* C12: a fault inside a strategy counts as no label: when OCR raises, the
\* visual search is still invoked and its label is used; when the visual
\* search raises (client construction included), extraction returns None;
\* extraction fails only when both strategies give nothing, and no exception
\* leaves it.
C12_StrategyFaultIsNoLabel ==
    \A r \in Reqs :
        /\ ocr[r] = "raised" =>
               /\ pc[r] = "vision" \/ vision[r] # "not_called"
               /\ (resp[r].valid /\ resp[r].best_guess_labels # <<>>) =>
                      label[r] = resp[r].best_guess_labels[1]
               /\ (resp[r].valid /\ resp[r].web_entities # <<>>) => label[r] # None
        /\ VisionRaised(r) =>
               /\ label[r] = None
               /\ queries[r] = <<>>
               /\ pc[r] \in {"improve", "done"}
               /\ pc[r] = "done" => sent[r] = <<"unidentified">>
        /\ (Downloaded(r) /\ pc[r] = "done" /\ ~Searching(r)) =>
               sent[r] = <<"unidentified">>
        /\ (Extracted(r) /\ label[r] = None) =>
               /\ ~OcrMatched(r)
               /\ VisionRaised(r) \/ VisionEmpty(r)

C12_Witness ==
    \E r \in Reqs :
        /\ ocr[r] = "raised"
        /\ resp[r].valid
        /\ label[r] = L_Air_Max
        /\ pc[r] = "improve"

\* C13: the visual search gives the first best-guess label whenever there is
\* one, whatever the entities; otherwise the description of an entity of
\* maximal score; None only when both lists are empty.
C13_BestGuessThenTopEntity ==
    \A r \in Reqs :
        resp[r].valid =>
            LET bgl == resp[r].best_guess_labels
                ents == resp[r].web_entities
            IN  /\ bgl # <<>> => label[r] = bgl[1]
                /\ (bgl = <<>> /\ ents # <<>>) =>
                       \E i \in DOMAIN ents :
                           /\ label[r] = ents[i].description
                           /\ \A j \in DOMAIN ents : ents[j].score <= ents[i].score
                /\ label[r] = None <=> (bgl = <<>> /\ ents = <<>>)

C13_Witness ==
    \E r \in Reqs :
        /\ resp[r].valid
        /\ resp[r].best_guess_labels = <<>>
        /\ resp[r].web_entities = <<Entity(L_Jordan, LowScore), Entity(L_Nike_Dunk_Low, HighScore)>>
        /\ label[r] = L_Nike_Dunk_Low

\* how often an event is in the log of a request
Count(log, ev) == Cardinality({i \in DOMAIN log : log[i] = ev})

\* C15: every catalog GET of a request comes right after a pacing sleep of
\* its own in that request: one sleep per call, none shared or skipped.
C15_SleepBeforeEveryCall ==
    \A r \in Reqs :
        /\ \A i \in DOMAIN net[r] :
               net[r][i] = "search_get" => (i > 1 /\ net[r][i - 1] = "sleep")
        /\ Count(net[r], "sleep") = Count(net[r], "search_get")
        /\ Count(net[r], "search_get") = Len(queries[r])

C15_Witness ==
    \E r \in Reqs :
        /\ pc[r] = "db_get"
        /\ Len(queries[r]) = 3
        /\ Count(net[r], "sleep") = 3

\* C16: a record returned by search_sneakers (a name, a retail price or a
\* market value is there) has a non-empty name.
C16_RecordHasName ==
    \A r \in Reqs :
        (Returned(r) /\ info[r] # NoInfo) =>
            (info[r].full_name # None /\ info[r].full_name # <<>>)

\* C17: a request makes at most one OCR call, at most one visual search and
\* at most six catalog searches, whatever the collaborators answer.
C17_BoundedCalls ==
    \A r \in Reqs :
        /\ Count(net[r], "ocr") <= 1
        /\ Count(net[r], "vision") <= 1
        /\ Count(net[r], "search_get") <= 6
        /\ Len(queries[r]) <= 6
        /\ Count(net[r], "image_get") <= 1

C17_Witness ==
    \E r \in Reqs :
        /\ pc[r] = "respond"
        /\ Len(queries[r]) = 6
        /\ Count(net[r], "vision") = 1
        /\ Count(net[r], "ocr") = 1

\* the brand occurs in the name when letter case is ignored
OccursIgnoringCase(brand, name) ==
    \E i \in 1..(Len(name) - Len(brand) + 1) :
        \A k \in DOMAIN brand : LowerChar(name[i + k - 1]) = LowerChar(brand[k])

\* a field of a record is there and neither zero nor empty
Present(v) == (v.t = "num" /\ v.n # 0) \/ (v.t = "str" /\ v.s # <<>>)

Amount(v) == <<"$">> \o (IF v.t = "num" THEN str_nat(v.n) ELSE v.s)

\* C18: of the first non-empty result list only the top entry is used; the
\* name is 'brand name' when the brand is non-empty and does not occur in the
\* name ignoring case, else the name alone; each price is there exactly when
\* its field is present and non-zero, independently of the other.
C18_TopEntryFormatting ==
    \A r \in Reqs :
        (Returned(r) /\ ~Falsy(results[r])) =>
            LET top == results[r].list[1]
                name == IF top.name.t = "str" THEN top.name.s
                        ELSE IF top.name.t = "missing" THEN S_Unknown_Sneaker
                        ELSE None
                withBrand == top.brand.t = "str" /\ top.brand.s # <<>>
            IN  /\ top.t = "dict"
                /\ info[r].full_name =
                       IF withBrand /\ ~OccursIgnoringCase(top.brand.s, name)
                       THEN top.brand.s \o <<" ">> \o name
                       ELSE name
                /\ info[r].price_str =
                       IF Present(top.retailPrice) THEN Amount(top.retailPrice) ELSE None
                /\ info[r].market_str =
                       IF Present(top.estimatedMarketValue)
                       THEN Amount(top.estimatedMarketValue) ELSE None

C18_Witness ==
    \E r \in Reqs :
        /\ Returned(r)
        /\ ~Falsy(results[r])
        /\ results[r].list[1].brand = JStr(B_NIKE)
        /\ results[r].list[1].name = JStr(N_Nike_Air_Max_90)
        /\ info[r].full_name = N_Nike_Air_Max_90

\* the messages check can send
Messages == {"upload_invalid", "download_failed", "error", "unidentified", "priced", "unpriced"}

\* C19: an invocation of check sends exactly one message on every path, one
\* of the three outcomes, the upload or download failure, or the fixed
\* error message; never none and never two.
C19_ExactlyOneResponse ==
    \A r \in Reqs :
        /\ pc[r] = "done" => (Len(sent[r]) = 1 /\ sent[r][1] \in Messages)
        /\ pc[r] # "done" => sent[r] = <<>>

C19_Witness ==
    \E r \in Reqs :
        /\ pc[r] = "done"
        /\ Searching(r)
        /\ sent[r] = <<"error">>

\* the label guess_with_vision gives a request that runs alone in a freshly
\* loaded module, from what the Vision service holds for that request
AloneLabel(r) ==
    IF ~vision_in[r].construct_ok \/ ~vision_in[r].api_ok
    THEN None
    ELSE pick_label(resp[r])

\* C14: concurrent requests are independent: whatever the interleaving, the
\* label a request gets from the visual search is the one it would get when
\* run alone against the same answers of the Vision service.
C14_Independent ==
    \A r \in Reqs :
        (pc[r] = "improve" /\ vision_in[r].called) => label[r] = AloneLabel(r)

\* a construction of the Vision client failed for request r in this step
ConstructionFailed(r) ==
    /\ pc[r] = "vision" /\ pc'[r] = "improve"
    /\ authenticated_vision_client = "None"
    /\ ~vision_in'[r].construct_ok

\* C20: over sequential or interleaved requests, the Vision client is built at
\* most once and, once set, is never replaced or reset; a failed construction
\* leaves the handle unset and gives no label to the request that made it
\* only, the labels of the other requests staying as they are.
C20_ClientBuiltOnce ==
    /\ [](constructions <= 1)
    /\ []((authenticated_vision_client = "client") <=> (constructions = 1))
    /\ [][ /\ authenticated_vision_client = "client"
                  => /\ authenticated_vision_client' = "client"
                     /\ constructions' = constructions
           /\ \A r \in Reqs :
                 ConstructionFailed(r)
                     => /\ authenticated_vision_client' = "None"
                        /\ label'[r] = None
                        /\ \A q \in Reqs \ {r} : label'[q] = label[q] ]_vars

\* request 1 failed to build the client while request 2 was in flight, and
\* request 2 then built it and got a label
C20_Witness ==
    /\ overlap
    /\ vision[1] = "client_error" /\ label[1] = None
    /\ vision[2] = "ok" /\ label[2] # None
    /\ authenticated_vision_client = "client"
    /\ constructions = 1

====
